---- MODULE Spec2Model ----
(***************************************************************************)
(* Model of optimas.generators.ax.service.base.AxServiceGenerator: the     *)
(* ask/tell bridge between the optimas Trial records and the Ax client.    *)
(*                                                                         *)
(* The Ax client (CustomAxClient / AxClient) and the Trial data class are  *)
(* collaborators of base.py; their behaviour is modelled by the operators  *)
(* of the section "Ax client", the rest is translated from base.py.        *)
(***************************************************************************)
EXTENDS Integers, Sequences, FiniteSets, TLC

\* ------------------------------------------------------------------ bounds
MaxTrials == 2      \* Trial records the outer loop creates, and engine trials
MaxNInit == 2       \* largest n_init

MaxFront == 3       \* largest Pareto set the engine returns
MaxParams == 2      \* longest list of varying parameters given to the translator

\* The number of trials a call of _ask or _tell is given.
BatchSizes == {1, 2}

\* --------------------------------------------------------------- sentinels
NoId == -1          \* a Trial without the ax_trial_id attribute
Unbound == -2       \* a local variable of _tell that was never assigned
None == -3          \* Python None (dict.get of a missing key)

\* ------------------------------------------------------------ declarations
\* self.objectives: name and minimize flag
objectives ==
    << [name |-> "f", minimize |-> TRUE], [name |-> "g", minimize |-> FALSE] >>

\* self.analyzed_parameters: names only
analyzed_parameters == << "p1", "p2" >>

\* The lists of VaryingParameter a generator may be built with (float/int
\* dtypes only: any other dtype aborts the construction). dtype is the kind
\* of np.dtype(var.dtype).
ParameterLists ==
    { << [name |-> "x0", lower_bound |-> 0, upper_bound |-> 1,
          is_fixed |-> FALSE, default_value |-> None, dtype |-> "f"],
         [name |-> "x1", lower_bound |-> 1, upper_bound |-> 2,
          is_fixed |-> fx, default_value |-> IF fx THEN 2 ELSE None,
          dtype |-> "f"] >>
      : fx \in BOOLEAN }


VARIABLES
    varying_parameters,     \* self._varying_parameters
    n_init,                 \* self._n_init
    enforce_n_init,         \* self._enforce_n_init
    abandon_failed_trials,  \* self._abandon_failed_trials
    outcome_constraints,    \* metric names of the registered outcome constraints
    fixed_features,         \* self._fixed_features (name -> value)
    custom_client,          \* the client is a CustomAxClient (accepts fixed_features)
    ax_ge_035,              \* version.parse(ax_version) >= version.parse("0.3.5")
    search_space,           \* ax_client.experiment.search_space (name -> <<lo, hi>>)
    ax_trials,              \* ax_client.experiment.trials; index = trial id + 1
    gs,                     \* ax_client.generation_strategy
    manager,                \* the generator the manager process keeps: which client
                            \* object its _ax_client names, and that object's state
    trials,                 \* the Trial records of the outer loop
    told,                   \* history: told[id + 1] is the status of the Trial that a
                            \* finished pass of _tell resolved to engine trial id
    last                    \* history: the last call, its batch, the exception it raised

vars == << varying_parameters, n_init, enforce_n_init, abandon_failed_trials,
           outcome_constraints, fixed_features, custom_client, ax_ge_035,
           search_space, ax_trials, gs, manager, trials, told, last >>

config == << varying_parameters, n_init, enforce_n_init, abandon_failed_trials,
             outcome_constraints, fixed_features, custom_client, ax_ge_035,
             search_space, manager >>

\* ------------------------------------------------------------ Python dicts
EmptyDict == [k \in {} |-> None]

DictSet(d, key, value) ==
    [k \in (DOMAIN d) \cup {key} |-> IF k = key THEN value ELSE d[k]]

DictGet(d, key) == IF key \in DOMAIN d THEN d[key] ELSE None

Range(s) == { s[i] : i \in DOMAIN s }

\* ================================================================ Ax client
SOBOL == "SOBOL"
BO == "BO"

RUNNING == "RUNNING"
COMPLETED == "COMPLETED"
ABANDONED == "ABANDONED"
FAILED == "FAILED"

\* The transition threshold of a generation step: transition_criteria[0]
\* .threshold from Ax 0.3.5 on, num_trials itself before.
Threshold(step) == IF ax_ge_035 THEN step.threshold ELSE step.num_trials

\* Trials generated by step i that count towards its threshold.
StepCount(ax, i) ==
    Cardinality({ j \in DOMAIN ax :
                    ax[j].step = i /\ ax[j].status \notin {FAILED, ABANDONED} })

\* GenerationStrategy._maybe_move_to_next_step
maybe_move_to_next_step(g, ax) ==
    IF /\ g.curr < Len(g.steps)
       /\ StepCount(ax, g.curr) >= Threshold(g.steps[g.curr])
    THEN [g EXCEPT !.curr = @ + 1]
    ELSE g

\* The point the engine proposes for its trial number i: as a Sobol sequence,
\* a fixed walk through the search space, every parameter within its bounds.
propose(ss, i) ==
    [n \in DOMAIN ss |-> ss[n][1] + (i % (ss[n][2] - ss[n][1] + 1))]

\* GenerationStrategy._fit_current_model: the model of the current step is
\* fitted; the step's model spec and the strategy's _model both refer to it.
\* A fitted model is named by the step it was fitted for.
fit_current_model(g) ==
    [g EXCEPT !.fitted[g.curr] = g.curr, !.model = g.curr]

\* AxClient.get_next_trial: the plan advances if the current step is used
\* up, the model of the current step is fitted, then the step generates a
\* point, with the fixed features ff laid over it. Returns the new engine state, the parameters and the trial
\* id.
get_next_trial(ax, g, ss, ff) ==
    LET g2 == fit_current_model(maybe_move_to_next_step(g, ax))
        p == propose(ss, Len(ax))
        q == [n \in DOMAIN p |-> IF n \in DOMAIN ff THEN ff[n] ELSE p[n]]
        t == [status |-> RUNNING, params |-> q, data |-> EmptyDict,
              step |-> g2.curr]
    IN [ax |-> Append(ax, t), gs |-> g2, parameters |-> q, trial_id |-> Len(ax)]

\* AxClient.attach_trial: a trial no generation step produced.
attach_trial(ax, params) ==
    LET t == [status |-> RUNNING, params |-> params, data |-> EmptyDict,
              step |-> 0]
    IN [ax |-> Append(ax, t), trial_id |-> Len(ax)]

\* AxClient.complete_trial
complete_trial(ax, trial_index, raw_data) ==
    [ax EXCEPT ![trial_index + 1].status = COMPLETED,
               ![trial_index + 1].data = raw_data]

\* Trial.mark_abandoned / Trial.mark_failed
mark_abandoned(ax, trial_index) == [ax EXCEPT ![trial_index + 1].status = ABANDONED]

mark_failed(ax, trial_index) == [ax EXCEPT ![trial_index + 1].status = FAILED]

KnownIds(ax) == { j - 1 : j \in DOMAIN ax }

\* ======================================================= AxServiceGenerator
\* Mutant: every parameter goes into the overlay, fixed or not.
FixedParametersEvery(fixed_parameters, vps, i) ==
    [n \in { vps[j].name : j \in DOMAIN vps } |->
        vps[CHOOSE j \in DOMAIN vps : vps[j].name = n].default_value]

\* _create_ax_parameters: the fixed-feature overlay, built in the loop
RECURSIVE FixedParameters(_, _, _)
FixedParameters(fixed_parameters, vps, i) ==
    IF i > Len(vps) THEN fixed_parameters
    ELSE FixedParameters(
             IF vps[i].is_fixed
             THEN DictSet(fixed_parameters, vps[i].name, vps[i].default_value)
             ELSE fixed_parameters,
             vps, i + 1)

\* The loop raises ValueError at the first parameter whose dtype is neither
\* float nor int; nothing is returned then and the overlay is not assigned.
_create_ax_parameters(vps) ==
    IF \E i \in DOMAIN vps : vps[i].dtype \notin {"f", "i"}
    THEN [raised |-> "ValueError", parameters |-> << >>,
          fixed_features |-> EmptyDict]
    ELSE [raised |-> "none",
          parameters |-> [i \in DOMAIN vps |->
                        [name |-> vps[i].name,
                         bounds |-> << vps[i].lower_bound, vps[i].upper_bound >>,
                         value_type |-> IF vps[i].dtype = "f" THEN "float"
                                        ELSE "int"]],
          fixed_features |-> FixedParameters(EmptyDict, vps, 1)]

\* The generation strategy _create_ax_client builds from the steps of
\* _create_generation_steps: n Sobol trials, then the Bayesian model without
\* a limit; nothing fitted yet.
GenerationStrategy(n) ==
    [curr |-> 1,
     steps |-> << [model |-> SOBOL, num_trials |-> n,
                   threshold |-> IF ax_ge_035 THEN n ELSE None],
                  [model |-> BO, num_trials |-> -1,
                   threshold |-> IF ax_ge_035 THEN -1 ELSE None] >>,
     fitted |-> << None, None >>,
     model |-> None]

\* The search space create_experiment builds from the range specs.
make_search_space(parameters) ==
    [n \in { parameters[i].name : i \in DOMAIN parameters } |->
        parameters[CHOOSE i \in DOMAIN parameters : parameters[i].name = n].bounds]

\* Mutant: the whole search space is replaced by the new one.
update_parameter_all(ss, new_search_space, name) == new_search_space

\* search_space.update_parameter(new_search_space.parameters[parameter.name])
update_parameter(ss, new_search_space, name) ==
    [ss EXCEPT ![name] = new_search_space[name]]

\* ---------------------------------------------------------- Trial records
NOT_STARTED == "NOT_STARTED"

\* A Trial the outer loop has just created: no values, no ax_trial_id.
NewTrial ==
    [status |-> NOT_STARTED, parameter_values |-> << >>, ax_trial_id |-> NoId,
     objective_evaluations |-> << >>, parameter_evaluations |-> << >>]

\* Trial.objective_evaluations / Trial.parameter_evaluations of an evaluated
\* Trial: one Evaluation (parameter name, value, sem) per objective and per
\* analyzed parameter.
ObjectiveEvaluations(v) ==
    [i \in DOMAIN objectives |->
        [name |-> objectives[i].name, value |-> v + i, sem |-> 0]]

ParameterEvaluations(v) ==
    [i \in DOMAIN analyzed_parameters |->
        [name |-> analyzed_parameters[i], value |-> v + 10 * i, sem |-> 1]]

\* ------------------------------------------------------------------- _ask
\* Mutant: the values are read in the reverse of the declared order.
_ask_trial_reversed(st, i, o) ==
    LET ff == IF custom_client THEN fixed_features ELSE EmptyDict
        n == Len(varying_parameters)
    IN IF o = "fail"
       THEN [st EXCEPT !.raised = "EngineError"]
       ELSE LET r == get_next_trial(st.ax, st.gs, search_space, ff)
                values == [j \in DOMAIN varying_parameters |->
                              DictGet(r.parameters, varying_parameters[n + 1 - j].name)]
            IN [st EXCEPT !.ax = r.ax, !.gs = r.gs,
                          !.recs[i].parameter_values = values,
                          !.recs[i].ax_trial_id = r.trial_id]

\* Mutant: the value list is written before the engine is asked.
_ask_trial_early_write(st, i, o) ==
    LET ff == IF custom_client THEN fixed_features ELSE EmptyDict
        blank == [j \in DOMAIN varying_parameters |-> None]
    IN IF o = "fail"
       THEN [st EXCEPT !.raised = "EngineError",
                       !.recs[i].parameter_values = blank]
       ELSE LET r == get_next_trial(st.ax, st.gs, search_space, ff)
                values == [j \in DOMAIN varying_parameters |->
                              DictGet(r.parameters, varying_parameters[j].name)]
            IN [st EXCEPT !.ax = r.ax, !.gs = r.gs,
                          !.recs[i].parameter_values = values,
                          !.recs[i].ax_trial_id = r.trial_id]

\* Mutant: the request a plain AxClient turns down has already created an
\* engine trial when the plain request is made.
_ask_trial_leaky(st, i, o) ==
    IF o = "fail"
    THEN [st EXCEPT !.raised = "EngineError"]
    ELSE LET first == IF custom_client THEN st.ax
                      ELSE attach_trial(st.ax, EmptyDict).ax
             ff == IF custom_client THEN fixed_features ELSE EmptyDict
             r == get_next_trial(first, st.gs, search_space, ff)
             values == [j \in DOMAIN varying_parameters |->
                           DictGet(r.parameters, varying_parameters[j].name)]
         IN [st EXCEPT !.ax = r.ax, !.gs = r.gs,
                       !.recs[i].parameter_values = values,
                       !.recs[i].ax_trial_id = r.trial_id]

\* One pass of the loop of _ask over recs[i]. o is what the engine does with
\* the request: serve it ("ok") or raise ("fail").
_ask_trial(st, i, o) ==
    LET \* try: get_next_trial(fixed_features=...); except TypeError: plain call
        ff == IF custom_client THEN fixed_features ELSE EmptyDict
    IN IF o = "fail"
       THEN [st EXCEPT !.raised = "EngineError"]
       ELSE LET r == get_next_trial(st.ax, st.gs, search_space, ff)
                values == [j \in DOMAIN varying_parameters |->
                              DictGet(r.parameters, varying_parameters[j].name)]
            IN [st EXCEPT !.ax = r.ax, !.gs = r.gs,
                          !.recs[i].parameter_values = values,
                          !.recs[i].ax_trial_id = r.trial_id]

RECURSIVE _ask_loop(_, _, _)
_ask_loop(st, i, os) ==
    IF i > Len(st.recs) \/ st.raised # "none" THEN st
    ELSE _ask_loop(_ask_trial(st, i, os[i]), i + 1, os)

\* ------------------------------------------------------------------ _tell
\* The outcome map of a completed trial (the dict outcome_evals).
RECURSIVE AddObjectiveEvaluations(_, _, _)
AddObjectiveEvaluations(d, evs, i) ==
    IF i > Len(evs) THEN d
    ELSE AddObjectiveEvaluations(
             DictSet(d, evs[i].name, << evs[i].value, evs[i].sem >>), evs, i + 1)

\* Mutant: every analyzed parameter is submitted, constraint metric or not.
RECURSIVE AddEveryEvaluation(_, _, _, _)
AddEveryEvaluation(d, evs, ocs, i) ==
    IF i > Len(evs) THEN d
    ELSE AddEveryEvaluation(
             DictSet(d, evs[i].name, << evs[i].value, evs[i].sem >>), evs, ocs, i + 1)

RECURSIVE AddConstraintEvaluations(_, _, _, _)
AddConstraintEvaluations(d, evs, ocs, i) ==
    IF i > Len(evs) THEN d
    ELSE AddConstraintEvaluations(
             IF evs[i].name \in ocs
             THEN DictSet(d, evs[i].name, << evs[i].value, evs[i].sem >>)
             ELSE d,
             evs, ocs, i + 1)

outcome_evals(trial) ==
    LET objs == AddObjectiveEvaluations(EmptyDict, trial.objective_evaluations, 1)
    IN IF outcome_constraints # {}
       THEN AddConstraintEvaluations(objs, trial.parameter_evaluations,
                                     outcome_constraints, 1)
       ELSE objs

\* Mutant: only num_trials is reduced, whatever the Ax version.
reduce_n_init_target_only(g, ax, trial) ==
    IF trial.status # FAILED /\ ~enforce_n_init
    THEN IF g.steps[g.curr].model = SOBOL
         THEN maybe_move_to_next_step([g EXCEPT !.steps[g.curr].num_trials = @ - 1], ax)
         ELSE g
    ELSE g

\* Mutant: enforce_n_init is not read.
reduce_n_init_unenforced(g, ax, trial) ==
    IF trial.status # FAILED
    THEN IF g.steps[g.curr].model = SOBOL
         THEN LET g1 == IF ax_ge_035
                        THEN [g EXCEPT !.steps[g.curr].num_trials = @ - 1,
                                       !.steps[g.curr].threshold = @ - 1]
                        ELSE [g EXCEPT !.steps[g.curr].num_trials = @ - 1]
              IN maybe_move_to_next_step(g1, ax)
         ELSE g
    ELSE g

\* Mutant: the status of the Trial is not looked at.
reduce_n_init_any_status(g, ax, trial) ==
    IF ~enforce_n_init
    THEN IF g.steps[g.curr].model = SOBOL
         THEN LET g1 == IF ax_ge_035
                        THEN [g EXCEPT !.steps[g.curr].num_trials = @ - 1,
                                       !.steps[g.curr].threshold = @ - 1]
                        ELSE [g EXCEPT !.steps[g.curr].num_trials = @ - 1]
              IN maybe_move_to_next_step(g1, ax)
         ELSE g
    ELSE g

\* "Since data was given externally, reduce number of initialization trials,
\* but only if they have not failed."
reduce_n_init(g, ax, trial) ==
    IF trial.status # FAILED /\ ~enforce_n_init
    THEN IF g.steps[g.curr].model = SOBOL
         THEN LET g1 == IF ax_ge_035
                        THEN [g EXCEPT !.steps[g.curr].num_trials = @ - 1,
                                       !.steps[g.curr].threshold = @ - 1]
                        ELSE [g EXCEPT !.steps[g.curr].num_trials = @ - 1]
              IN maybe_move_to_next_step(g1, ax)
         ELSE g
    ELSE g

\* Mutant: the failed branch marks nothing.
mark_as_failed_forgotten(ax, trial_index) == ax

\* Mutant: the policy flag is read the wrong way round.
mark_as_failed_inverted(ax, trial_index) ==
    IF abandon_failed_trials
    THEN mark_failed(ax, trial_index)
    ELSE mark_abandoned(ax, trial_index)

\* The status the policy flag gives the engine trial of a failed Trial.
mark_as_failed(ax, trial_index) ==
    IF abandon_failed_trials
    THEN mark_abandoned(ax, trial_index)
    ELSE mark_failed(ax, trial_index)

\* Mutant: the reduction sits after the try statement, so it runs for an
\* ask-filled Trial too.
resolve_then_reduce(st, trial, o) ==
    IF trial.ax_trial_id # NoId
    THEN IF o = "fail" \/ trial.ax_trial_id \notin KnownIds(st.ax)
         THEN [st EXCEPT !.trial_id = trial.ax_trial_id,
                         !.raised = "LookupError"]
         ELSE [st EXCEPT !.trial_id = trial.ax_trial_id,
                         !.ax_trial = trial.ax_trial_id,
                         !.gs = reduce_n_init(st.gs, st.ax, trial)]
    ELSE IF o = "fail"
         THEN [st EXCEPT !.raised = "AttachError"]
         ELSE LET params == [n \in { varying_parameters[j].name :
                                       j \in DOMAIN trial.parameter_values } |->
                               trial.parameter_values[
                                   CHOOSE j \in DOMAIN trial.parameter_values :
                                       varying_parameters[j].name = n]]
                  a == attach_trial(st.ax, params)
              IN [st EXCEPT !.ax = a.ax, !.trial_id = a.trial_id,
                            !.ax_trial = a.trial_id,
                            !.gs = reduce_n_init(st.gs, a.ax, trial)]

\* Mutant: a lookup the engine fails is recovered by an attach as well.
resolve_any_failure(st, trial, o) ==
    IF trial.ax_trial_id # NoId /\ o # "fail"
                           /\ trial.ax_trial_id \in KnownIds(st.ax)
    THEN [st EXCEPT !.trial_id = trial.ax_trial_id,
                    !.ax_trial = trial.ax_trial_id]
    ELSE LET params == [n \in { varying_parameters[j].name :
                                  j \in DOMAIN trial.parameter_values } |->
                          trial.parameter_values[
                              CHOOSE j \in DOMAIN trial.parameter_values :
                                  varying_parameters[j].name = n]]
             a == attach_trial(st.ax, params)
         IN [st EXCEPT !.ax = a.ax, !.trial_id = a.trial_id,
                       !.ax_trial = a.trial_id,
                       !.gs = reduce_n_init(st.gs, a.ax, trial)]

\* try / except AttributeError of one pass of the loop of _tell. st carries
\* the engine state and the locals trial_id and ax_trial, which keep the
\* values of the previous pass. o = "fail" makes the engine call of this
\* block (get_trial, or attach_trial) raise.
resolve(st, trial, o) ==
    IF trial.ax_trial_id # NoId
    THEN \* trial_id = trial.ax_trial_id; ax_trial = get_trial(trial_id)
         IF o = "fail" \/ trial.ax_trial_id \notin KnownIds(st.ax)
         THEN [st EXCEPT !.trial_id = trial.ax_trial_id,
                         !.raised = "LookupError"]
         ELSE [st EXCEPT !.trial_id = trial.ax_trial_id,
                         !.ax_trial = trial.ax_trial_id]
    ELSE \* AttributeError: attach the parameters of the Trial
         IF o = "fail"
         THEN [st EXCEPT !.raised = "AttachError"]
         ELSE LET params == [n \in { varying_parameters[j].name :
                                       j \in DOMAIN trial.parameter_values } |->
                               trial.parameter_values[
                                   CHOOSE j \in DOMAIN trial.parameter_values :
                                       varying_parameters[j].name = n]]
                  a == attach_trial(st.ax, params)
              IN [st EXCEPT !.ax = a.ax, !.trial_id = a.trial_id,
                            !.ax_trial = a.trial_id,
                            !.gs = reduce_n_init(st.gs, a.ax, trial)]

\* finally: of the same pass. An exception raised here replaces the one the
\* try block left pending. marked is the trial id the block handed to the
\* engine, if it got that far.
finally(st, trial) ==
    IF trial.status = COMPLETED
    THEN IF st.trial_id = Unbound
         THEN [st EXCEPT !.raised = "UnboundLocalError"]
         ELSE IF st.trial_id \notin KnownIds(st.ax)
         THEN [st EXCEPT !.raised = "EngineError", !.marked = st.trial_id]
         ELSE [st EXCEPT !.ax = complete_trial(@, st.trial_id, outcome_evals(trial)),
                         !.marked = st.trial_id]
    ELSE IF trial.status = FAILED
    THEN IF st.ax_trial = Unbound
         THEN [st EXCEPT !.raised = "UnboundLocalError"]
         ELSE [st EXCEPT !.ax = mark_as_failed(@, st.ax_trial),
                         !.marked = st.ax_trial]
    ELSE st

\* Mutant: the pass records the engine trial id it resolved on the Trial.
_tell_trial_recording_id(st, k, o) ==
    LET trial == st.recs[k]
        r == resolve([st EXCEPT !.marked = NoId], trial, o)
        f == finally(r, trial)
        seen == [j \in DOMAIN f.ax |-> IF j \in DOMAIN st.told THEN st.told[j] ELSE "none"]
    IN [f EXCEPT !.resolution = r.raised,
                 !.recs[k].ax_trial_id =
                     IF r.trial_id = Unbound THEN @ ELSE r.trial_id,
                 !.told = IF f.raised = "none"
                          THEN [seen EXCEPT ![r.trial_id + 1] = trial.status]
                          ELSE seen]

\* One pass of the loop of _tell over the Trial recs[k]; the pass reads the
\* Trial and assigns nothing to it. resolution keeps the exception of the try
\* block of the pass, told the Trial status of every pass that finished.
_tell_trial(st, k, o) ==
    LET trial == st.recs[k]
        r == resolve([st EXCEPT !.marked = NoId], trial, o)
        f == finally(r, trial)
        seen == [j \in DOMAIN f.ax |-> IF j \in DOMAIN st.told THEN st.told[j] ELSE "none"]
    IN [f EXCEPT !.resolution = r.raised,
                 !.told = IF f.raised = "none"
                          THEN [seen EXCEPT ![r.trial_id + 1] = trial.status]
                          ELSE seen]

RECURSIVE _tell_loop(_, _, _, _)
_tell_loop(st, batch, i, os) ==
    IF i > Len(batch) \/ st.raised # "none" THEN st
    ELSE _tell_loop(_tell_trial(st, batch[i], os[i]), batch, i + 1, os)

\* ------------------------------------------- _prepare_to_send and _update
\* Mutant: only the strategy's own reference is dropped.
prepare_to_send_top_only(g) ==
    IF g.model # None THEN [g EXCEPT !.model = None] ELSE g

\* The generation strategy after _prepare_to_send: the fitted model is taken
\* out of the model spec of the current step and out of _model, if _model
\* holds one.
prepare_to_send(g) ==
    IF g.model # None
    THEN [g EXCEPT !.fitted[g.curr] = None, !.model = None]
    ELSE g

\* update_object(original, new): every attribute of new is set on original.
update_object(original, new) == new

\* Generator._update: the attributes of the newer generator are set on this
\* one, its client among them.
super_update(mgr, new_client) == [mgr EXCEPT !.ax_client = "snapshot"]

\* Mutant: the client of the newer generator is kept as it arrives.
update_replacing(mgr, new_client) == super_update(mgr, new_client)

\* _update: the client object held before the call takes the state of the
\* newer generator's client and stays the generator's client.
update(mgr, new_client) ==
    LET original_ax_client == mgr.ax_client
        m1 == super_update(mgr, new_client)
        m2 == [m1 EXCEPT !.client = update_object(mgr.client, new_client)]
    IN [m2 EXCEPT !.ax_client = original_ax_client]

\* ------------------------------------------------------- _get_best_values
\* np.argmin / np.argmax: the first position of the smallest / largest value
\* (positions from 1 here); an empty sequence makes them raise ValueError.
argmin_last(xs) ==
    CHOOSE i \in DOMAIN xs :
        /\ \A j \in DOMAIN xs : xs[i] <= xs[j]
        /\ \A j \in DOMAIN xs : j > i => xs[j] # xs[i]

argmin(xs) ==
    CHOOSE i \in DOMAIN xs :
        /\ \A j \in DOMAIN xs : xs[i] <= xs[j]
        /\ \A j \in DOMAIN xs : j < i => xs[j] # xs[i]

argmax_last(xs) ==
    CHOOSE i \in DOMAIN xs :
        /\ \A j \in DOMAIN xs : xs[i] >= xs[j]
        /\ \A j \in DOMAIN xs : j > i => xs[j] # xs[i]

argmax(xs) ==
    CHOOSE i \in DOMAIN xs :
        /\ \A j \in DOMAIN xs : xs[i] >= xs[j]
        /\ \A j \in DOMAIN xs : j < i => xs[j] # xs[i]

\* Mutant: the engine's answer is unpacked without the test for None.
_get_best_values_unpacked(objs, objective, pp, result) ==
    LET objective_names == [i \in DOMAIN objs |-> objs[i].name]
    IN IF objective \notin Range(objective_names)
       THEN [raised |-> "ValueError", value |-> None]
       ELSE IF result = None
            THEN [raised |-> "TypeError", value |-> None]
            ELSE [raised |-> "none", value |-> result]

\* _get_best_values of a generator with the objectives objs. A parameterization
\* is named by the index of the trial it belongs to. pp is what
\* get_pareto_optimal_parameters returns, in iteration order (vals: the
\* parameterization, objs: the objective means); result is None or the
\* parameterization of the pair get_best_parameters returns.
_get_best_values(objs, objective, pp, result) ==
    LET objective_names == [i \in DOMAIN objs |-> objs[i].name]
    IN IF objective \notin Range(objective_names)
       THEN [raised |-> "ValueError", value |-> None]
       ELSE LET obj == objs[CHOOSE i \in DOMAIN objs :
                                objective_names[i] = objective]
            IN IF Len(objs) > 1
               THEN LET obj_vals == [i \in DOMAIN pp |-> pp[i].objs[obj.name]]
                        param_vals == [i \in DOMAIN pp |-> pp[i].vals]
                    IN IF obj_vals = << >>
                       THEN [raised |-> "ValueError", value |-> None]
                       ELSE [raised |-> "none",
                             value |-> param_vals[IF obj.minimize
                                                  THEN argmin(obj_vals)
                                                  ELSE argmax(obj_vals)]]
               ELSE IF result # None
                    THEN [raised |-> "none", value |-> result]
                    ELSE [raised |-> "none", value |-> None]

\* ================================================================= actions
\* What the engine may do with the requests of one _ask: serve each, or
\* raise at one (nothing is asked of it after that).
AskServed(n) == { [i \in 1..n |-> "ok"] }

AskRuns(n) ==
    AskServed(n) \cup
        { [i \in 1..n |-> IF i < k THEN "ok" ELSE "fail"] : k \in 1..n }

\* What the engine may do with the lookups and attaches of one _tell: serve
\* each, or raise at one (nothing is asked of it after the pass that raised).
TellServed(n) == { [i \in 1..n |-> "ok"] }

TellRuns(n) ==
    TellServed(n) \cup
        { [i \in 1..n |-> IF i < k THEN "ok" ELSE "fail"] : k \in 1..n }

\* The values of the Trials an external source may hand over.
ExternalValues == { << 1, 2 >> }

NoCall == [op |-> "none", batch |-> << >>, raised |-> "none",
           resolution |-> "none", marked |-> NoId]

Init ==
    /\ varying_parameters \in ParameterLists
    /\ n_init \in 1..MaxNInit
    /\ enforce_n_init \in BOOLEAN
    /\ abandon_failed_trials \in BOOLEAN
    /\ outcome_constraints \in { {}, {"p1"} }
    /\ custom_client \in BOOLEAN
    /\ ax_ge_035 \in BOOLEAN
    /\ fixed_features = _create_ax_parameters(varying_parameters).fixed_features
    /\ search_space =
           make_search_space(_create_ax_parameters(varying_parameters).parameters)
    /\ ax_trials = << >>
    /\ gs = GenerationStrategy(n_init)
    /\ manager = [ax_client |-> "original",
                  client |-> [ax_trials |-> ax_trials, gs |-> gs,
                              search_space |-> search_space]]
    /\ trials = << >>
    /\ told = << >>
    /\ last = NoCall

\* Generator.ask: n fresh Trials are passed to _ask.
_ask(n, os) ==
    /\ Len(trials) + n <= MaxTrials
    /\ Len(ax_trials) + n <= MaxTrials
    /\ LET st == _ask_loop([ax |-> ax_trials, gs |-> gs, raised |-> "none",
                            recs |-> [i \in 1..n |-> NewTrial]], 1, os)
       IN /\ ax_trials' = st.ax
          /\ gs' = st.gs
          /\ trials' = trials \o st.recs
          /\ told' = [j \in DOMAIN st.ax |->
                         IF j \in DOMAIN told THEN told[j] ELSE "none"]
          /\ last' = [op |-> "ask",
                      batch |-> [i \in 1..n |-> Len(trials) + i],
                      raised |-> st.raised, resolution |-> "none",
                      marked |-> NoId]
    /\ UNCHANGED config

\* A Trial evaluated elsewhere enters the outer loop: values, a final status,
\* no ax_trial_id.
AddExternalTrial(values, status) ==
    /\ Len(trials) < MaxTrials
    /\ LET k == Len(trials) + 1
       IN trials' = Append(trials,
           [status |-> status, parameter_values |-> values, ax_trial_id |-> NoId,
            objective_evaluations |->
                IF status = COMPLETED THEN ObjectiveEvaluations(k) ELSE << >>,
            parameter_evaluations |->
                IF status = COMPLETED THEN ParameterEvaluations(k) ELSE << >>])
    /\ last' = [NoCall EXCEPT !.op = "external", !.batch = << Len(trials) + 1 >>]
    /\ UNCHANGED << config, ax_trials, gs, told >>

\* The outer loop evaluates a Trial that _ask has filled.
Evaluate(k, status) ==
    /\ trials[k].status = NOT_STARTED
    /\ trials[k].ax_trial_id # NoId
    /\ trials' = [trials EXCEPT
           ![k].status = status,
           ![k].objective_evaluations =
                IF status = COMPLETED THEN ObjectiveEvaluations(k) ELSE << >>,
           ![k].parameter_evaluations =
                IF status = COMPLETED THEN ParameterEvaluations(k) ELSE << >>]
    /\ last' = [NoCall EXCEPT !.op = "evaluate", !.batch = << k >>]
    /\ UNCHANGED << config, ax_trials, gs, told >>

\* Generator.tell: a batch of evaluated Trials.
_tell(batch, os) ==
    /\ \A i \in DOMAIN batch :
           /\ trials[batch[i]].parameter_values # << >>
           /\ trials[batch[i]].status \in {COMPLETED, FAILED}
    /\ Len(ax_trials) + Cardinality({ i \in DOMAIN batch :
                              trials[batch[i]].ax_trial_id = NoId }) <= MaxTrials
    /\ LET st == _tell_loop([ax |-> ax_trials, gs |-> gs, trial_id |-> Unbound,
                             ax_trial |-> Unbound, raised |-> "none",
                             resolution |-> "none", marked |-> NoId,
                             told |-> told, recs |-> trials],
                            batch, 1, os)
       IN /\ ax_trials' = st.ax
          /\ gs' = st.gs
          /\ trials' = st.recs
          /\ told' = st.told
          /\ last' = [op |-> "tell", batch |-> batch, raised |-> st.raised,
                      resolution |-> st.resolution, marked |-> st.marked]
    /\ UNCHANGED config

\* _mark_trial_as_failed
_mark_trial_as_failed(k) ==
    /\ trials[k].ax_trial_id \in KnownIds(ax_trials)
    /\ ax_trials' = mark_as_failed(ax_trials, trials[k].ax_trial_id)
    /\ last' = [NoCall EXCEPT !.op = "mark_failed", !.batch = << k >>]
    /\ UNCHANGED << config, gs, trials, told >>

\* The lists of VaryingParameter the translator may be given: any dtype kind
\* (float, int, or a string kind), any bounds, fixed (with a default inside
\* the bounds) or not.
ParameterNames == << "x0", "x1", "x2", "x3" >>

VaryingParameters(i) ==
    { [name |-> ParameterNames[i], lower_bound |-> lo, upper_bound |-> lo + 1,
       is_fixed |-> fx, default_value |-> IF fx THEN lo ELSE None,
       dtype |-> k] : lo \in 0..1, fx \in BOOLEAN, k \in {"f", "i", "U"} }

TypedParameterLists ==
    UNION { { l \in [1..n -> UNION { VaryingParameters(i) : i \in 1..n }] :
                \A i \in 1..n : l[i] \in VaryingParameters(i) } :
            n \in 1..MaxParams }

\* _create_ax_parameters on a given list: what it returns or raises, and the
\* overlay it leaves.
CreateAxParameters(vps) ==
    /\ LET r == _create_ax_parameters(vps)
       IN last' = [op |-> "create", batch |-> << >>, raised |-> r.raised,
                   resolution |-> "none", marked |-> NoId,
                   vps |-> vps, parameters |-> r.parameters,
                   fixed_features |-> r.fixed_features]
    /\ UNCHANGED << config, ax_trials, gs, trials, told >>

\* The user changes a VaryingParameter of the generator in place (its range,
\* or whether it is fixed and at which value); the generator is not told yet.
ModifyParameter(k, p) ==
    /\ p \in VaryingParameters(k)
    /\ p.dtype = varying_parameters[k].dtype
    /\ p # varying_parameters[k]
    /\ varying_parameters' = [varying_parameters EXCEPT ![k] = p]
    /\ last' = [NoCall EXCEPT !.op = "modify", !.batch = << k >>]
    /\ UNCHANGED << n_init, enforce_n_init, abandon_failed_trials,
                    outcome_constraints, fixed_features, custom_client,
                    ax_ge_035, search_space, ax_trials, gs, manager, trials,
                    told >>

\* _update_parameter(parameter), parameter being the k-th varying parameter.
_update_parameter(k) ==
    /\ LET parameters == _create_ax_parameters(varying_parameters)
           new_search_space == make_search_space(parameters.parameters)
       IN /\ fixed_features' = parameters.fixed_features
          /\ search_space' = update_parameter(search_space, new_search_space,
                                              varying_parameters[k].name)
    /\ last' = [NoCall EXCEPT !.op = "update_parameter", !.batch = << k >>]
    /\ UNCHANGED << varying_parameters, n_init, enforce_n_init,
                    abandon_failed_trials, outcome_constraints, custom_client,
                    ax_ge_035, ax_trials, gs, manager, trials, told >>

\* The generator is about to be sent to another process.
_prepare_to_send ==
    /\ gs' = prepare_to_send(gs)
    /\ last' = [NoCall EXCEPT !.op = "prepare_to_send"]
    /\ UNCHANGED << config, ax_trials, trials, told >>

\* The manager receives the generator as it is now (new_generator, a copy
\* made by the transfer) and merges it into its own.
_update ==
    /\ manager' = update(manager, [ax_trials |-> ax_trials, gs |-> gs,
                                   search_space |-> search_space])
    /\ last' = [NoCall EXCEPT !.op = "update"]
    /\ UNCHANGED << varying_parameters, n_init, enforce_n_init,
                    abandon_failed_trials, outcome_constraints, fixed_features,
                    custom_client, ax_ge_035, search_space, ax_trials, gs,
                    trials, told >>

\* The objective lists a generator may have, and the names a caller may ask
\* the best values for.
ObjectiveLists ==
    { << [name |-> "f", minimize |-> m] >> : m \in BOOLEAN } \cup
    { << [name |-> "f", minimize |-> m1], [name |-> "g", minimize |-> m2] >> :
        m1, m2 \in BOOLEAN }

ObjectiveNames == {"f", "g", "h"}

ObjectiveValues == 0..1

\* Point a is at least as good as b in every objective and better in one.
Dominates(a, b, objs) ==
    LET better(i, strict) ==
            IF objs[i].minimize
            THEN IF strict THEN a[objs[i].name] < b[objs[i].name]
                 ELSE a[objs[i].name] <= b[objs[i].name]
            ELSE IF strict THEN a[objs[i].name] > b[objs[i].name]
                 ELSE a[objs[i].name] >= b[objs[i].name]
    IN /\ \A i \in DOMAIN objs : better(i, FALSE)
       /\ \E i \in DOMAIN objs : better(i, TRUE)

\* What get_pareto_optimal_parameters may return: up to MaxFront points, none
\* dominated by another, the i-th with the parameterization i.
ParetoSets(objs) ==
    LET names == { objs[i].name : i \in DOMAIN objs }
        means == UNION { [1..n -> [names -> ObjectiveValues]] : n \in 0..MaxFront }
    IN { [i \in DOMAIN m |-> [vals |-> i, objs |-> m[i]]] :
           m \in { x \in means : \A i, j \in DOMAIN x :
                                    ~Dominates(x[i], x[j], objs) } }

\* What get_best_parameters may return: None, or a parameterization.
BestParameters == {None} \cup 1..MaxFront

\* A caller (plot_contour, plot_slice, or the user) asks for the best values.
GetBestValues(objs, objective, pp, result) ==
    /\ LET r == _get_best_values(objs, objective, pp, result)
       IN last' = [op |-> "best", batch |-> << >>, raised |-> r.raised,
                   resolution |-> "none", marked |-> NoId,
                   objectives |-> objs, objective |-> objective,
                   pp |-> pp, result |-> result, value |-> r.value]
    /\ UNCHANGED << config, ax_trials, gs, trials, told >>

Batches ==
    { b \in UNION { [1..n -> DOMAIN trials] : n \in BatchSizes } :
        \A i, j \in DOMAIN b : i # j => b[i] # b[j] }

\* The calls of the outer loop, the engine serving every request.
Next ==
    \/ \E n \in BatchSizes : \E os \in AskServed(n) : _ask(n, os)
    \/ \E values \in ExternalValues : \E status \in {COMPLETED, FAILED} :
           AddExternalTrial(values, status)
    \/ \E k \in DOMAIN trials : \E status \in {COMPLETED, FAILED} :
           Evaluate(k, status)
    \/ \E b \in Batches : \E os \in TellServed(Len(b)) : _tell(b, os)
    \/ \E k \in DOMAIN trials : _mark_trial_as_failed(k)

\* The same calls, the engine free to raise at a request of _ask and at a
\* lookup or an attach of _tell.
NextFault ==
    \/ \E n \in BatchSizes : \E os \in AskRuns(n) : _ask(n, os)
    \/ \E values \in ExternalValues : \E status \in {COMPLETED, FAILED} :
           AddExternalTrial(values, status)
    \/ \E k \in DOMAIN trials : \E status \in {COMPLETED, FAILED} :
           Evaluate(k, status)
    \/ \E b \in Batches : \E os \in TellRuns(Len(b)) : _tell(b, os)

\* Every configuration, the engine serving every request.
Spec == Init /\ [][Next]_vars

\* The same generator with the options a group of operations does not read
\* held at their defaults.
NoFixedParameter ==
    \A i \in DOMAIN varying_parameters : ~varying_parameters[i].is_fixed

\* _ask: the client and the fixed parameters vary.
InitAsk ==
    /\ Init
    /\ n_init = MaxNInit /\ ~enforce_n_init /\ abandon_failed_trials
    /\ outcome_constraints = {} /\ ax_ge_035

SpecAsk == InitAsk /\ [][Next]_vars

\* The marking step of _tell: the failure policy and the outcome constraints
\* vary.
InitTell ==
    /\ Init
    /\ n_init = MaxNInit /\ ~enforce_n_init /\ ax_ge_035
    /\ custom_client /\ NoFixedParameter

SpecTell == InitTell /\ [][Next]_vars

\* The generation plan: n_init, enforce_n_init and the Ax version vary.
InitPlan ==
    /\ Init
    /\ abandon_failed_trials /\ outcome_constraints = {}
    /\ custom_client /\ NoFixedParameter

SpecPlan == InitPlan /\ [][Next]_vars

\* Engine failures: the engine may raise at any request of _ask and at any
\* lookup or attach of _tell; the client varies.
InitFault ==
    /\ Init
    /\ n_init = MaxNInit /\ ~enforce_n_init /\ ax_ge_035
    /\ abandon_failed_trials /\ outcome_constraints = {} /\ NoFixedParameter

SpecFault == InitFault /\ [][NextFault]_vars

\* The parameter translator, on lists of every shape.
NextParams == \E vps \in TypedParameterLists : CreateAxParameters(vps)

\* The best-value selector, on objective lists and engine answers of every
\* shape.
NextBest ==
    \/ \E objs \in { l \in ObjectiveLists : Len(l) = 1 } :
       \E objective \in ObjectiveNames : \E result \in BestParameters :
           GetBestValues(objs, objective, << >>, result)
    \/ \E objs \in { l \in ObjectiveLists : Len(l) > 1 } :
       \E objective \in ObjectiveNames : \E pp \in ParetoSets(objs) :
           GetBestValues(objs, objective, pp, None)

InitPure ==
    /\ Init
    /\ n_init = MaxNInit /\ ~enforce_n_init /\ ax_ge_035
    /\ abandon_failed_trials /\ outcome_constraints = {}
    /\ custom_client /\ NoFixedParameter

SpecParams == InitPure /\ [][NextParams]_vars

SpecBest == InitPure /\ [][NextBest]_vars

\* Changes of the search space while trials are asked for.
NextUpdate ==
    \/ \E k \in DOMAIN varying_parameters :
       \E p \in VaryingParameters(k) : ModifyParameter(k, p)
    \/ \E k \in DOMAIN varying_parameters : _update_parameter(k)
    \/ \E n \in BatchSizes : \E os \in AskServed(n) : _ask(n, os)

InitUpdate ==
    /\ Init
    /\ n_init = MaxNInit /\ ~enforce_n_init /\ ax_ge_035
    /\ abandon_failed_trials /\ outcome_constraints = {}
    /\ custom_client /\ NoFixedParameter

SpecUpdate == InitUpdate /\ [][NextUpdate]_vars

\* The generator works in a worker process and is sent back to the manager.
NextSend ==
    \/ \E n \in BatchSizes : \E os \in AskServed(n) : _ask(n, os)
    \/ \E values \in ExternalValues : \E status \in {COMPLETED, FAILED} :
           AddExternalTrial(values, status)
    \/ \E k \in DOMAIN trials : \E status \in {COMPLETED, FAILED} :
           Evaluate(k, status)
    \/ \E b \in Batches : \E os \in TellServed(Len(b)) : _tell(b, os)
    \/ _prepare_to_send
    \/ _update

InitSend ==
    /\ Init
    /\ n_init = 1 /\ ~enforce_n_init /\ ax_ge_035
    /\ abandon_failed_trials /\ outcome_constraints = {}
    /\ custom_client /\ NoFixedParameter

SpecSend == InitSend /\ [][NextSend]_vars

\* ================================================================== claims
Terminal == {COMPLETED, ABANDONED, FAILED}

\* The engine status the failure policy asks for.
PolicyStatus == IF abandon_failed_trials THEN ABANDONED ELSE FAILED

\* The engine trial of an ask-filled Trial.
EngineTrial(k) == ax_trials[trials[k].ax_trial_id + 1]

\* The trial-count target and the transition threshold of the Sobol step.
SobolTarget(g) == g.steps[1].num_trials

SobolThreshold(g) == Threshold(g.steps[1])

\* C1: every Trial that a finished pass of tell received with status
\* completed or failed has its engine trial in a terminal state, whether the
\* engine trial came from ask or from an attach.
C1_ToldTrialsAreTerminal ==
    \A j \in DOMAIN told :
        told[j] \in {COMPLETED, FAILED} => ax_trials[j].status \in Terminal

\* An ask-filled failed Trial and an attached completed Trial have both been
\* told.
C1_Witness ==
    /\ \E j \in DOMAIN told : told[j] = FAILED /\ ax_trials[j].step # 0
    /\ \E j \in DOMAIN told : told[j] = COMPLETED /\ ax_trials[j].step = 0

\* C2: an _ask that returns hands back its N trials, each with an engine
\* trial id and one value per varying parameter, in declaration order, none
\* missing, each within the declared bounds.
C2_AskFillsEveryTrial ==
    (last.op = "ask" /\ last.raised = "none") =>
        \A i \in DOMAIN last.batch :
            LET t == trials[last.batch[i]] IN
            /\ t.ax_trial_id \in KnownIds(ax_trials)
            /\ Len(t.parameter_values) = Len(varying_parameters)
            /\ \A j \in DOMAIN varying_parameters :
                   /\ t.parameter_values[j] # None
                   /\ t.parameter_values[j] =
                          EngineTrial(last.batch[i]).params[varying_parameters[j].name]
                   /\ varying_parameters[j].lower_bound <= t.parameter_values[j]
                   /\ t.parameter_values[j] <= varying_parameters[j].upper_bound

\* A batch of two trials has been filled by the plain client, with a
\* fixed parameter declared.
C2_Witness ==
    /\ last.op = "ask" /\ last.raised = "none" /\ Len(last.batch) = 2
    /\ ~custom_client /\ ~NoFixedParameter
    /\ \A i \in DOMAIN last.batch : trials[last.batch[i]].ax_trial_id # NoId

\* C3 as claimed: an _ask that the engine aborts leaves no Trial of the batch
\* with values or an engine trial id.
C3_AbortLeavesNoAssignment ==
    (last.op = "ask" /\ last.raised # "none") =>
        \A i \in DOMAIN last.batch :
            /\ trials[last.batch[i]].parameter_values = << >>
            /\ trials[last.batch[i]].ax_trial_id = NoId

\* C3 as amended: the abort reaches the caller as the engine's failure; the
\* trials from the failing one on are untouched, those before it are filled
\* in full, and no Trial has values without an id or an id without values.
C3_AbortKeepsFilledPrefix ==
    (last.op = "ask" /\ last.raised # "none") =>
        /\ last.raised = "EngineError"
        /\ \E k \in DOMAIN last.batch :
               \A i \in DOMAIN last.batch :
                   LET t == trials[last.batch[i]] IN
                   IF i < k
                   THEN /\ t.ax_trial_id \in KnownIds(ax_trials)
                        /\ Len(t.parameter_values) = Len(varying_parameters)
                   ELSE /\ t.ax_trial_id = NoId
                        /\ t.parameter_values = << >>

\* The engine failed at the second trial of a batch.
C3_Witness ==
    /\ last.op = "ask" /\ last.raised = "EngineError" /\ Len(last.batch) = 2
    /\ trials[last.batch[1]].ax_trial_id # NoId
    /\ trials[last.batch[2]].ax_trial_id = NoId

\* C4: after tell, the engine trial of a completed ask-filled Trial is
\* completed and its outcome map has exactly the objectives and the analyzed
\* parameters that are outcome-constraint metrics as keys, each mapped to the
\* (value, sem) pair of the Trial's evaluation.
C4_OutcomeMap ==
    (last.op = "tell" /\ last.raised = "none") =>
        \A i \in DOMAIN last.batch :
            LET t == trials[last.batch[i]] IN
            (t.status = COMPLETED /\ t.ax_trial_id # NoId) =>
                LET e == EngineTrial(last.batch[i])
                    evs == t.objective_evaluations \o t.parameter_evaluations
                IN /\ e.status = COMPLETED
                   /\ DOMAIN e.data =
                          { objectives[j].name : j \in DOMAIN objectives }
                              \cup (Range(analyzed_parameters) \cap outcome_constraints)
                   /\ \A j \in DOMAIN evs :
                          evs[j].name \in DOMAIN e.data =>
                              e.data[evs[j].name] = << evs[j].value, evs[j].sem >>

\* A completed ask-filled Trial has been told with an outcome constraint on
\* p1 registered.
C4_Witness ==
    /\ last.op = "tell" /\ last.raised = "none"
    /\ outcome_constraints = {"p1"}
    /\ \E i \in DOMAIN last.batch :
           /\ trials[last.batch[i]].status = COMPLETED
           /\ trials[last.batch[i]].ax_trial_id # NoId
           /\ "p1" \in DOMAIN EngineTrial(last.batch[i]).data

\* C5: the engine trial of a failed Trial, ask-filled or attached, is
\* abandoned if abandon_failed_trials and failed otherwise once tell has
\* handled it, and never carries completion data; _mark_trial_as_failed gives
\* the engine trial the status of the same policy.
C5_FailurePolicy ==
    /\ \A j \in DOMAIN told :
           told[j] = FAILED =>
               /\ ax_trials[j].status = PolicyStatus
               /\ ax_trials[j].data = EmptyDict
    /\ last.op = "mark_failed" =>
           EngineTrial(last.batch[1]).status = PolicyStatus

\* With abandon_failed_trials off, a failed attached Trial and a failed
\* ask-filled Trial have been told.
C5_Witness ==
    /\ ~abandon_failed_trials
    /\ \E j \in DOMAIN told : told[j] = FAILED /\ ax_trials[j].step = 0
    /\ \E j \in DOMAIN told : told[j] = FAILED /\ ax_trials[j].step # 0

\* The Sobol trials still to be generated before the step is used up.
SobolLeft(g, ax) == SobolThreshold(g) - StepCount(ax, 1)

\* The Trials of a batch that tell attaches and that have not failed.
LiveAttaches(batch) ==
    Cardinality({ i \in DOMAIN batch :
                    /\ trials[batch[i]].ax_trial_id = NoId
                    /\ trials[batch[i]].status # FAILED })

\* The engine trials that were attached.
Attached(ax) == Cardinality({ j \in DOMAIN ax : ax[j].step = 0 })

\* C6: with enforce_n_init off and the Sobol step current with at least one
\* trial left for each of them, telling q attached non-failed Trials (q = 1:
\* exactly one) reduces the step's trial-count target and its transition
\* threshold by q each, and the two stay equal.
C6_AttachReducesSobolByOne ==
    [][ ( /\ last'.op = "tell" /\ last'.raised = "none"
          /\ ~enforce_n_init
          /\ gs.steps[gs.curr].model = SOBOL
          /\ LiveAttaches(last'.batch) >= 1
          /\ SobolLeft(gs, ax_trials) >= LiveAttaches(last'.batch) )
        => /\ SobolTarget(gs') = SobolTarget(gs) - LiveAttaches(last'.batch)
           /\ SobolThreshold(gs') = SobolThreshold(gs) - LiveAttaches(last'.batch)
           /\ SobolTarget(gs') = SobolThreshold(gs') ]_vars

\* One completed attached Trial has been told under Ax >= 0.3.5 and the
\* target went from n_init to n_init - 1.
C6_Witness ==
    /\ last.op = "tell" /\ last.raised = "none" /\ Len(last.batch) = 1
    /\ trials[last.batch[1]].ax_trial_id = NoId
    /\ trials[last.batch[1]].status = COMPLETED
    /\ ~enforce_n_init /\ ax_ge_035
    /\ SobolTarget(gs) = n_init - 1 /\ gs.steps[1].threshold = n_init - 1

\* C7: with enforce_n_init on, the trial-count target and the transition
\* threshold of the Sobol step stay at n_init, whatever is attached.
C7_EnforcedBudgetIsKept ==
    enforce_n_init =>
        /\ SobolTarget(gs) = n_init
        /\ SobolThreshold(gs) = n_init

\* With enforce_n_init on, a completed and a failed attached Trial have been
\* told while the Sobol step was current.
C7_Witness ==
    /\ enforce_n_init /\ gs.curr = 1
    /\ \E j \in DOMAIN told : told[j] = COMPLETED /\ ax_trials[j].step = 0
    /\ \E j \in DOMAIN told : told[j] = FAILED /\ ax_trials[j].step = 0

\* C8 as claimed: the target and the threshold of the Sobol step are never
\* negative, and a tell made once the step is used up (no trial left) or is
\* no longer the current step changes no counter and raises nothing.
C8_UsedUpStepIsLeftAlone ==
    /\ [](SobolTarget(gs) >= 0 /\ SobolThreshold(gs) >= 0)
    /\ [][ ( /\ last'.op = "tell"
             /\ (gs.curr # 1 \/ SobolLeft(gs, ax_trials) <= 0) )
           => (gs'.steps = gs.steps /\ last'.raised = "none") ]_vars

\* C9: _ask, and _tell on Trials that all carry an engine trial id, change
\* neither counter of the Sobol step and attach nothing; any _tell reduces the
\* target by at most one per attached non-failed Trial.
C9_OnlyAttachesReduce ==
    [][ /\ ( \/ last'.op = "ask"
             \/ /\ last'.op = "tell"
                /\ \A i \in DOMAIN last'.batch :
                       trials[last'.batch[i]].ax_trial_id # NoId )
           => /\ SobolTarget(gs') = SobolTarget(gs)
              /\ SobolThreshold(gs') = SobolThreshold(gs)
              /\ Attached(ax_trials') = Attached(ax_trials)
        /\ last'.op = "tell"
           => /\ SobolTarget(gs) - SobolTarget(gs') \in 0..LiveAttaches(last'.batch)
              /\ SobolThreshold(gs) - SobolThreshold(gs')
                     \in 0..LiveAttaches(last'.batch) ]_vars

\* A completed ask-filled Trial has been told with enforce_n_init off and the
\* Sobol step still current.
C9_Witness ==
    /\ last.op = "tell" /\ last.raised = "none"
    /\ ~enforce_n_init /\ gs.curr = 1
    /\ \E i \in DOMAIN last.batch :
           /\ trials[last.batch[i]].ax_trial_id # NoId
           /\ trials[last.batch[i]].status = COMPLETED
           /\ EngineTrial(last.batch[i]).status = COMPLETED

\* C10 as claimed: when resolving the engine trial fails in a pass of _tell,
\* the marking step still hands a trial id to the engine, and the caller gets
\* the resolution failure (or, at worst, the engine's refusal of the marking
\* call).
C10_MarkingSurvivesResolutionFailure ==
    (last.op = "tell" /\ last.resolution # "none") =>
        /\ last.marked # NoId
        /\ last.raised \in {last.resolution, "EngineError"}

\* The objective a best-value query names, when the generator has it.
KnownObjective ==
    \E i \in DOMAIN last.objectives : last.objectives[i].name = last.objective

QueriedObjective ==
    last.objectives[CHOOSE i \in DOMAIN last.objectives :
                        last.objectives[i].name = last.objective]

\* C11: with a single objective, _get_best_values for a known objective
\* returns None and raises nothing when the engine has no best point.
C11_NoBestPointIsNone ==
    ( /\ last.op = "best" /\ Len(last.objectives) = 1
      /\ KnownObjective /\ last.result = None )
        => (last.raised = "none" /\ last.value = None)

\* A single-objective query for the known objective, the engine answering None.
C11_Witness ==
    /\ last.op = "best" /\ Len(last.objectives) = 1
    /\ last.objective = "f" /\ last.result = None
    /\ last.raised = "none"

\* C12: with more than one objective and a non-empty Pareto set,
\* _get_best_values returns the parameterization of the first point, in
\* iteration order, whose value of the requested objective is the smallest
\* (objective minimized) or the largest (objective maximized).
C12_FirstExtremalPoint ==
    ( /\ last.op = "best" /\ Len(last.objectives) > 1
      /\ KnownObjective /\ last.pp # << >> )
        => /\ last.raised = "none"
           /\ \E k \in DOMAIN last.pp :
                  LET v(j) == last.pp[j].objs[last.objective]
                  IN /\ last.value = last.pp[k].vals
                     /\ \A j \in DOMAIN last.pp :
                            IF QueriedObjective.minimize
                            THEN v(k) <= v(j) ELSE v(k) >= v(j)
                     /\ \A j \in DOMAIN last.pp : j < k => v(j) # v(k)

\* A minimized objective, three points: the second and the third tie for the
\* smallest value, the first is larger, and the second is returned.
C12_Witness ==
    /\ last.op = "best" /\ Len(last.objectives) > 1
    /\ KnownObjective /\ QueriedObjective.minimize
    /\ Len(last.pp) = 3
    /\ last.pp[2].objs[last.objective] = last.pp[3].objs[last.objective]
    /\ last.pp[1].objs[last.objective] > last.pp[2].objs[last.objective]
    /\ last.raised = "none" /\ last.value = last.pp[2].vals

\* C13: for a list of float/int parameters _create_ax_parameters gives one
\* range spec per parameter, in the declared order, with bounds [lower,
\* upper], and the overlay is exactly name -> default value of the fixed
\* parameters; a list with any other dtype makes it raise.
C13_RangeSpecsAndOverlay ==
    last.op = "create" =>
        IF \A i \in DOMAIN last.vps : last.vps[i].dtype \in {"f", "i"}
        THEN /\ last.raised = "none"
             /\ DOMAIN last.parameters = DOMAIN last.vps
             /\ \A i \in DOMAIN last.vps :
                    /\ last.parameters[i].name = last.vps[i].name
                    /\ last.parameters[i].bounds =
                           << last.vps[i].lower_bound, last.vps[i].upper_bound >>
             /\ DOMAIN last.fixed_features =
                    { last.vps[i].name : i \in { j \in DOMAIN last.vps :
                                                    last.vps[j].is_fixed } }
             /\ \A i \in DOMAIN last.vps :
                    last.vps[i].is_fixed =>
                        last.fixed_features[last.vps[i].name] =
                            last.vps[i].default_value
        ELSE last.raised = "ValueError"

\* Two parameters of different numeric kinds, one fixed and one not, have
\* been translated.
C13_Witness ==
    /\ last.op = "create" /\ last.raised = "none"
    /\ Len(last.vps) = 2
    /\ last.vps[1].dtype = "i" /\ last.vps[2].dtype = "f"
    /\ last.vps[1].is_fixed /\ ~last.vps[2].is_fixed
    /\ DOMAIN last.fixed_features = {last.vps[1].name}

\* C17 as claimed: with more than one objective and an empty Pareto set,
\* _get_best_values returns an absent result and raises nothing.
C17_EmptyParetoSetIsAbsent ==
    ( /\ last.op = "best" /\ Len(last.objectives) > 1
      /\ KnownObjective /\ last.pp = << >> )
        => (last.raised = "none" /\ last.value = None)

\* C18: a client without the fixed-feature-aware request is served by the
\* plain request and the caller sees no error; with either client a served
\* _ask creates exactly one engine trial per Trial, in batch order, and that
\* trial is the one the Trial gets.
C18_OneEngineTrialPerAsk ==
    [][ last'.op = "ask" =>
          /\ last'.raised = "none"
          /\ Len(ax_trials') = Len(ax_trials) + Len(last'.batch)
          /\ \A i \in DOMAIN last'.batch :
                 trials'[last'.batch[i]].ax_trial_id = Len(ax_trials) + i - 1 ]_vars

\* A plain client, with a parameter fixed (so the overlay it turns down is
\* not empty), has served a batch of two.
C18_Witness ==
    /\ ~custom_client /\ DOMAIN fixed_features # {}
    /\ last.op = "ask" /\ last.raised = "none" /\ Len(last.batch) = 2
    /\ Len(ax_trials) = 2
    /\ trials[last.batch[2]].ax_trial_id = 1

\* The Trials of a batch that tell attaches.
Attaches(batch) ==
    Cardinality({ i \in DOMAIN batch : trials[batch[i]].ax_trial_id = NoId })

\* C19: a tell whose attached Trials have all failed leaves the generation
\* plan as it was, whatever enforce_n_init is; each of them is attached as a
\* new engine trial and that trial gets the status of the failure policy.
C19_FailedAttachKeepsBudget ==
    [][ ( /\ last'.op = "tell" /\ last'.raised = "none"
          /\ Attaches(last'.batch) >= 1
          /\ LiveAttaches(last'.batch) = 0 )
        => /\ gs' = gs
           /\ Len(ax_trials') = Len(ax_trials) + Attaches(last'.batch)
           /\ \A j \in DOMAIN ax_trials' :
                  j > Len(ax_trials) =>
                      /\ ax_trials'[j].step = 0
                      /\ ax_trials'[j].status = PolicyStatus ]_vars

\* A failed attached Trial has been told with enforce_n_init off while the
\* Sobol step was current and had trials left; the target is still n_init.
C19_Witness ==
    /\ ~enforce_n_init /\ gs.curr = 1 /\ SobolLeft(gs, ax_trials) >= 1
    /\ last.op = "tell" /\ last.raised = "none" /\ Len(last.batch) = 1
    /\ trials[last.batch[1]].ax_trial_id = NoId
    /\ trials[last.batch[1]].status = FAILED
    /\ ax_trials[Len(ax_trials)].step = 0
    /\ ax_trials[Len(ax_trials)].status = PolicyStatus
    /\ SobolTarget(gs) = n_init

\* The Trials among the first k - 1 of a batch that tell attaches.
AttachesBefore(batch, k) ==
    Cardinality({ i \in DOMAIN batch :
                    i < k /\ trials[batch[i]].ax_trial_id = NoId })

\* C16 as claimed: every lookup failure of _tell is recovered by an attach, so
\* a tell that fails has failed in an attach.
C16_TellFailsOnlyInAttach ==
    (last.op = "tell" /\ last.raised # "none") => last.resolution = "AttachError"

\* C16 as amended: a tell that raises nothing has attached exactly its
\* Trials without an engine trial id; a lookup the engine fails, for a Trial
\* that carries an id, is not recovered: nothing is attached for that Trial
\* and the call fails; a failed attach fails the call too.
C16_OnlyMissingIdIsRecovered ==
    [][ last'.op = "tell" =>
          /\ last'.raised = "none" =>
                 Len(ax_trials') = Len(ax_trials) + Attaches(last'.batch)
          /\ last'.resolution = "LookupError" =>
                 /\ last'.raised # "none"
                 /\ \E k \in DOMAIN last'.batch :
                        /\ trials[last'.batch[k]].ax_trial_id # NoId
                        /\ Len(ax_trials') =
                               Len(ax_trials) + AttachesBefore(last'.batch, k)
          /\ last'.resolution = "AttachError" =>
                 /\ last'.raised # "none"
                 /\ \E k \in DOMAIN last'.batch :
                        /\ trials[last'.batch[k]].ax_trial_id = NoId
                        /\ Len(ax_trials') =
                               Len(ax_trials) + AttachesBefore(last'.batch, k) ]_vars

\* A batch of two: the Trial without an id was attached, then the lookup of
\* the ask-filled Trial failed and the call failed with it.
C16_Witness ==
    /\ last.op = "tell" /\ Len(last.batch) = 2
    /\ trials[last.batch[1]].ax_trial_id = NoId
    /\ trials[last.batch[2]].ax_trial_id # NoId
    /\ last.resolution = "LookupError" /\ last.raised # "none"
    /\ Attached(ax_trials) = 1

\* The position of the varying parameter called n.
ParameterIndex(n) ==
    CHOOSE j \in DOMAIN varying_parameters : varying_parameters[j].name = n

\* C20: after _update_parameter the overlay is exactly name -> default value
\* of the varying parameters that are fixed now, and the call has replaced
\* only the named parameter in the engine's search space; every served _ask
\* of a client that takes the overlay gives each Trial the overlay's value
\* for every parameter in it.
C20_OverlayFollowsUpdate ==
    [][ /\ last'.op = "update_parameter" =>
            LET named == varying_parameters[last'.batch[1]]
            IN /\ DOMAIN fixed_features' =
                      { varying_parameters[j].name :
                          j \in { i \in DOMAIN varying_parameters :
                                    varying_parameters[i].is_fixed } }
               /\ \A n \in DOMAIN fixed_features' :
                      fixed_features'[n] =
                          varying_parameters[ParameterIndex(n)].default_value
               /\ search_space'[named.name] =
                      << named.lower_bound, named.upper_bound >>
               /\ \A n \in DOMAIN search_space :
                      n # named.name => search_space'[n] = search_space[n]
        /\ (last'.op = "ask" /\ last'.raised = "none" /\ custom_client) =>
            \A i \in DOMAIN last'.batch : \A n \in DOMAIN fixed_features :
                trials'[last'.batch[i]].parameter_values[ParameterIndex(n)] =
                    fixed_features[n] ]_vars

\* Both parameters were changed, only the first was passed to
\* _update_parameter: the overlay holds the fixed first parameter, the search
\* space still has the old range of the second, and a Trial asked for
\* afterwards has the overlay's value.
C20_Witness ==
    /\ last.op = "ask" /\ last.raised = "none" /\ custom_client
    /\ varying_parameters[1].is_fixed
    /\ DOMAIN fixed_features = {varying_parameters[1].name}
    /\ search_space[varying_parameters[2].name] #
           << varying_parameters[2].lower_bound, varying_parameters[2].upper_bound >>
    /\ search_space[varying_parameters[1].name] =
           << varying_parameters[1].lower_bound, varying_parameters[1].upper_bound >>
    /\ trials[last.batch[1]].parameter_values[1] =
           varying_parameters[1].default_value

\* The phase index and the per-phase trial counts and thresholds of a plan.
Counters(g) ==
    [curr |-> g.curr,
     steps |-> [i \in DOMAIN g.steps |->
                   [num_trials |-> g.steps[i].num_trials,
                    threshold |-> g.steps[i].threshold]]]

\* C14: _prepare_to_send changes no counter of the generation plan (and no
\* trial) and leaves no fitted model in the current step's model spec nor in
\* the strategy's _model; the merge that follows gives the manager's client a
\* plan with the same counters, still without those references.
C14_RoundTripKeepsCounters ==
    [][ /\ last'.op = "prepare_to_send" =>
            /\ Counters(gs') = Counters(gs)
            /\ gs'.model = None /\ gs'.fitted[gs'.curr] = None
            /\ ax_trials' = ax_trials
        /\ (last.op = "prepare_to_send" /\ last'.op = "update") =>
            /\ Counters(manager'.client.gs) = Counters(gs)
            /\ manager'.client.gs.model = None
            /\ manager'.client.gs.fitted[gs.curr] = None ]_vars

\* A generator whose plan had moved to the second phase and had reduced its
\* Sobol target, with a fitted model, was stripped and merged: the manager's
\* client has the counters, and no fitted model in the current phase.
C14_Witness ==
    /\ last.op = "update"
    /\ manager.client.gs.curr = 2
    /\ Len(manager.client.ax_trials) >= 2
    /\ manager.client.gs.fitted[1] # None
    /\ manager.client.gs.fitted[2] = None
    /\ manager.client.gs.model = None
    /\ Counters(manager.client.gs) = Counters(gs)

\* C15: after _update the generator's client is the client object it had
\* before, and the state of that object is the state of the client of the
\* generator that was merged in.
C15_ClientIdentityIsKept ==
    [][ last'.op = "update" =>
          /\ manager'.ax_client = manager.ax_client
          /\ manager'.ax_client = "original"
          /\ manager'.client = [ax_trials |-> ax_trials, gs |-> gs,
                                search_space |-> search_space] ]_vars

\* A generator with engine trials was merged into a manager whose client had
\* none: the client is the original object and has the trials now.
C15_Witness ==
    /\ last.op = "update"
    /\ manager.ax_client = "original"
    /\ manager.client.ax_trials = ax_trials
    /\ \E j \in DOMAIN ax_trials : ax_trials[j].status = COMPLETED

\* The Trial records that carry an engine trial id.
WithId == { k \in DOMAIN trials : trials[k].ax_trial_id # NoId }

\* C21: _tell leaves the Trial records as they are, so a Trial without an
\* engine trial id has none after tell either and every tell of it attaches
\* a new engine trial: the engine trials are the trials of the Trials that
\* carry an id plus one attached trial per told Trial without an id.
C21_TellLeavesTrialsAlone ==
    /\ [](/\ Len(ax_trials) = Cardinality(WithId) + Attached(ax_trials)
          /\ \A j \in DOMAIN ax_trials :
                 ax_trials[j].step = 0 => told[j] # "none")
    /\ [][ last'.op = "tell" =>
             /\ trials' = trials
             /\ last'.raised = "none" =>
                    /\ Len(ax_trials') = Len(ax_trials) + Attaches(last'.batch)
                    /\ \A j \in DOMAIN ax_trials' :
                           j > Len(ax_trials) => ax_trials'[j].step = 0 ]_vars

\* The only Trial without an id has been told for the second time: it still
\* has no id and the engine has two attached trials with its values.
C21_Witness ==
    /\ last.op = "tell" /\ last.raised = "none" /\ Len(last.batch) = 1
    /\ trials[last.batch[1]].ax_trial_id = NoId
    /\ Cardinality({ k \in DOMAIN trials : trials[k].ax_trial_id = NoId }) = 1
    /\ Attached(ax_trials) = 2
    /\ ax_trials[1].params = ax_trials[2].params

====
